---- MODULE Spec2Model ----
(***************************************************************************)
(* The in-viewport "active item" Observer of super-bowl-guide              *)
(* (src/unnamed/part_000, lines 548-657): construction and option          *)
(* defaulting, addElements, onObserve (ranking and the activity gate),     *)
(* stop, and the lodash throttle wrapped around onObserve; the geolocation *)
(* helpers of Util (src/app/utils.js, lines 134-174) and the online and    *)
(* offline handling of the page (src/app/index.js, lines 34-39, 97-114).   *)
(*                                                                         *)
(* Conventions.  Times are milliseconds.  Intersection ratios and the      *)
(* visible threshold are percentages (0.85 is 85).  A JavaScript value     *)
(* that may be undefined, a boolean or a number is a record [t, b, n]; an  *)
(* optional value is a sequence of length 0 (undefined) or 1.              *)
(***************************************************************************)
EXTENDS Integers, Sequences, FiniteSets, TLC

VARIABLES
  given,          \* the options object as the host passed it to the constructor
  options,        \* this.options after the constructor's defaulting
  observer,       \* TRUE iff this.observer is defined
  observed,       \* the targets the IntersectionObserver currently watches
  registry,       \* this.options.elements: "undefined", "own" or a caller's array
  heap,           \* the contents of every array: the callers' and the tracker's own
  now,            \* the clock (ms)
  lastArgs,       \* lodash debounce: the batch waiting for the trailing edge
  lastCallTime,   \* lodash debounce: time of the last call of the throttled function
  lastInvokeTime, \* lodash debounce: time of the last invocation of onObserve
  timerId,        \* lodash debounce: the due time of the pending timer
  calls,          \* history: every invocation of options.onObserve, in order
  deliveries,     \* history: the time of every batch the intersection source delivered
  registered,     \* history: every element handed to addElements, in order
  stopCalls,      \* history: Len(calls) when stop() first returned
  threw,          \* history: some call of the API threw
  util,           \* the Util object: hasGeolocate, geolocateWatchID
  geolocation,    \* navigator.geolocation: its watches and pending requests
  page            \* index.js: the store, the body class, the window's listeners

trackerVars == <<given, options, observer, observed, registry, heap, now, lastArgs,
                 lastCallTime, lastInvokeTime, timerId, calls, deliveries,
                 registered, stopCalls, threw>>

pageVars == <<util, geolocation, page>>

vars == <<trackerVars, pageVars>>

(***************************************************************************)
(* Bounds of the model and constants of the program.                       *)
(***************************************************************************)
MaxBatch == 3           \* longest batch of samples that is ranked
MaxThrottleBatches == 5 \* deliveries in a throttled run
MaxTime == 170          \* the clock stops here
TimeStep == 10          \* granularity of the clock
MaxLifeBatches == 2     \* deliveries in a lifecycle run
MaxRegistered == 5      \* elements handed to addElements in a lifecycle run
MaxReentryBatch == 2    \* longest batch reported to a callback that registers
MaxGeoSteps == 5        \* geolocation calls and callbacks in a run
MaxNetEvents == 6       \* 'load', 'online' and 'offline' events in a run

DefaultThrottle == 150
DefaultVisibleThreshold == 85

Elements == {1, 2, 3}
\* boundingClientRect.y of each element
ElementY == <<10, 20, 5>>
Ratios == {10, 30, 80, 85, 90, 95}

(***************************************************************************)
(* JavaScript values.                                                      *)
(***************************************************************************)
JsUndefined == [t |-> "undefined", b |-> FALSE, n |-> 0]
JsBool(x) == [t |-> "boolean", b |-> x, n |-> 0]
JsNum(x) == [t |-> "number", b |-> FALSE, n |-> x]
Truthy(v) == (v.t = "boolean" /\ v.b) \/ (v.t = "number" /\ v.n # 0)

None == <<>>
Some(x) == <<x>>

(***************************************************************************)
(* The constructor's defaulting of the options.                            *)
(***************************************************************************)
OptThrottle(g) ==
  IF g = JsBool(FALSE) \/ Truthy(g) THEN g ELSE JsNum(DefaultThrottle)

OptAttribute(g) == IF g # "" THEN g ELSE "data-id"

OptVisibleThreshold(g) == IF Truthy(g) THEN g.n ELSE DefaultVisibleThreshold

OptForceItem(g) == IF g = JsBool(FALSE) \/ Truthy(g) THEN g ELSE JsBool(FALSE)

Defaulted(g) ==
  [throttle |-> OptThrottle(g.throttle),
   attribute |-> OptAttribute(g.attribute),
   visibleThreshold |-> OptVisibleThreshold(g.visibleThreshold),
   forceItem |-> OptForceItem(g.forceItem)]

(***************************************************************************)
(* Samples (IntersectionObserverEntry) and batches.                        *)
(***************************************************************************)
Entry(e, r) ==
  [target |-> e, intersectionRatio |-> r, y |-> ElementY[e], inView |-> FALSE]

Samples(targets) == {Entry(e, r) : e \in targets, r \in Ratios}

\* the batches of 1..n samples of S
Batches(S, n) == UNION {[1..k -> S] : k \in 1..n}

GetAttribute(e, attribute) == [attribute |-> attribute, of |-> e]

(***************************************************************************)
(* _.orderBy(entries, ['intersectionRatio', e => e.boundingClientRect.y],  *)
(* ['desc', 'asc']): a stable sort.                                        *)
(***************************************************************************)
\* a bug that would rank the least visible sample first
BeforeAscending(a, b) ==
  \/ a.intersectionRatio < b.intersectionRatio
  \/ a.intersectionRatio = b.intersectionRatio /\ a.y < b.y

\* a strictly precedes b in the order
Before(a, b) ==
  \/ a.intersectionRatio > b.intersectionRatio
  \/ a.intersectionRatio = b.intersectionRatio /\ a.y < b.y

\* x goes before the first element it strictly precedes: equal elements keep
\* their order of arrival
InsertSorted(s, x) ==
  LET later == {i \in 1..Len(s) : Before(x, s[i])}
      k == IF later = {} THEN Len(s) + 1
           ELSE CHOOSE i \in later : \A j \in later : i <= j
  IN SubSeq(s, 1, k - 1) \o <<x>> \o SubSeq(s, k, Len(s))

RECURSIVE OrderBy(_)
OrderBy(entries) ==
  IF entries = <<>> THEN <<>>
  ELSE InsertSorted(OrderBy(SubSeq(entries, 1, Len(entries) - 1)),
                    entries[Len(entries)])

(***************************************************************************)
(* onObserve: rank, gate the first-ranked sample, report.                  *)
(***************************************************************************)
\* a bug that would ignore forceItem
GateThresholdOnly(top, opts) == top.intersectionRatio >= opts.visibleThreshold

Gate(top, opts) ==
  top.intersectionRatio >= opts.visibleThreshold \/ Truthy(opts.forceItem)

\* a bug that would mark every sample that passes the gate
MarkAll(sorted, opts) ==
  [i \in 1..Len(sorted) |->
     IF Gate(sorted[i], opts) THEN [sorted[i] EXCEPT !.inView = TRUE]
     ELSE sorted[i]]

\* sorted[0].inView = true when the gate passes
Mark(sorted, opts) ==
  IF Gate(sorted[1], opts) THEN [sorted EXCEPT ![1].inView = TRUE] ELSE sorted

\* the arguments options.onObserve is called with (identifier, sample, ranked);
\* the rest is history: the batch as delivered, its number and time of
\* delivery, the time of the call, the number of batches delivered by then, and
\* the edge of the throttle that made the call; during is what the host's
\* callback handed to addElements while it ran
Report(batch, kind) ==
  LET sorted == Mark(OrderBy(batch.entries), options)
  IN [identifier |-> IF sorted[1].inView
                     THEN Some(GetAttribute(sorted[1].target, options.attribute))
                     ELSE None,
      sample |-> IF sorted[1].inView THEN Some(sorted[1]) ELSE None,
      ranked |-> sorted,
      entries |-> batch.entries,
      time |-> now,
      batchAt |-> batch.at,
      batchNo |-> batch.no,
      delivered |-> IF kind = "trailing" THEN Len(deliveries)
                    ELSE Len(deliveries) + 1,
      kind |-> kind,
      during |-> <<>>]

(***************************************************************************)
(* The arrays of the host and of the tracker.  options.elements is a       *)
(* reference: to nothing, to an array of a caller, or to the copy that     *)
(* addElements made with _.map ("own": the copy before it is garbage).     *)
(***************************************************************************)
CallerArrays == {"A", "B"}
InitialHeap == [A |-> <<1, 2, 3>>, B |-> <<2, 1>>, own |-> <<>>]

IsArrayLike(ref) == ref # "undefined"

Range(s) == {s[i] : i \in 1..Len(s)}

(***************************************************************************)
(* The constructor (lines 557-594).                                        *)
(***************************************************************************)
\* a bug that would never wrap onObserve in _.throttle
NeverThrottle(opts) == FALSE

\* line 579: this.options.throttle ? _.throttle(...) : _.bind(...)
UseThrottle(opts) == Truthy(opts.throttle)

\* the wait handed to _.throttle
Wait == options.throttle.n

\* g.elements is None or Some(a caller's array); capable is whether
\* window.IntersectionObserver exists
TrackerConstructed(g, capable) ==
  LET adds == capable /\ g.elements # None
  IN /\ given = g
     /\ options = Defaulted(g)
     /\ observer = capable
     /\ heap = IF adds THEN [InitialHeap EXCEPT !.own = InitialHeap[g.elements[1]]]
               ELSE InitialHeap
     /\ registry = IF adds THEN "own"
                   ELSE IF g.elements # None THEN g.elements[1] ELSE "undefined"
     /\ observed = IF adds THEN Range(InitialHeap[g.elements[1]]) ELSE {}
     /\ registered = IF adds THEN InitialHeap[g.elements[1]] ELSE <<>>
     /\ now = 0
     /\ lastArgs = None
     /\ lastCallTime = None
     /\ lastInvokeTime = 0
     /\ timerId = None
     /\ calls = <<>>
     /\ deliveries = <<>>
     /\ stopCalls = None
     /\ threw = FALSE

(***************************************************************************)
(* Util (src/app/utils.js): checkGeolocate, geolocate, stopGeolocate, and  *)
(* the callbacks navigator.geolocation makes.  Watch ids count up from 1.  *)
(* lastWatch, stopSeen and steps are history.                              *)
(***************************************************************************)
UtilConstructed(available) ==
  /\ util = [hasGeolocate |-> JsUndefined, geolocateWatchID |-> JsUndefined]
  /\ geolocation = [available |-> available, watches |-> {}, oneShots |-> 0,
                    nextId |-> 1, done |-> 0, lastWatch |-> None,
                    stopSeen |-> FALSE, steps |-> 0]

\* line 159: this.hasGeolocate = false
ErrorCallback(u) == [u EXCEPT !.hasGeolocate = JsBool(FALSE)]

\* checkGeolocate: the Util object after the call; its result is hasGeolocate
CheckGeolocate(u) ==
  IF u.hasGeolocate = JsUndefined
  THEN [u EXCEPT !.hasGeolocate = JsBool(geolocation.available)]
  ELSE u

\* line 171: this.geolocateWatchID && this.checkGeolocate()
StopClears(u) ==
  Truthy(u.geolocateWatchID) /\ Truthy(CheckGeolocate(u).hasGeolocate)

\* geolocate(done, watch)
Geolocate(watch) ==
  LET u == CheckGeolocate(util)
      id == geolocation.nextId
  IN /\ geolocation.steps < MaxGeoSteps
     /\ IF Truthy(u.hasGeolocate)
        THEN IF watch
             THEN /\ util' = [u EXCEPT !.geolocateWatchID = JsNum(id)]
                  /\ geolocation' = [geolocation EXCEPT
                                       !.watches = @ \cup {id},
                                       !.nextId = id + 1,
                                       !.lastWatch = Some(id),
                                       !.stopSeen = FALSE,
                                       !.steps = @ + 1]
             ELSE \* getCurrentPosition returns undefined
                  /\ util' = [u EXCEPT !.geolocateWatchID = JsUndefined]
                  /\ geolocation' = [geolocation EXCEPT
                                       !.oneShots = @ + 1,
                                       !.lastWatch = None,
                                       !.stopSeen = FALSE,
                                       !.steps = @ + 1]
        ELSE \* done('Geolocation not available')
             /\ util' = u
             /\ geolocation' = [geolocation EXCEPT
                                  !.done = @ + 1,
                                  !.stopSeen = FALSE,
                                  !.steps = @ + 1]
     /\ UNCHANGED <<trackerVars, page>>

\* a watch reports a position: done(null, {lat, lng})
WatchSuccess ==
  /\ geolocation.steps < MaxGeoSteps
  /\ geolocation.watches # {}
  /\ geolocation' = [geolocation EXCEPT !.done = @ + 1, !.steps = @ + 1]
  /\ UNCHANGED <<trackerVars, util, page>>

\* a watch reports an error (the watch goes on): done(error)
WatchError ==
  /\ geolocation.steps < MaxGeoSteps
  /\ geolocation.watches # {}
  /\ util' = ErrorCallback(util)
  /\ geolocation' = [geolocation EXCEPT !.done = @ + 1, !.steps = @ + 1]
  /\ UNCHANGED <<trackerVars, page>>

\* a getCurrentPosition request answers, with a position or with an error
OneShotAnswer(ok) ==
  /\ geolocation.steps < MaxGeoSteps
  /\ geolocation.oneShots > 0
  /\ util' = IF ok THEN util ELSE ErrorCallback(util)
  /\ geolocation' = [geolocation EXCEPT
                       !.oneShots = @ - 1, !.done = @ + 1, !.steps = @ + 1]
  /\ UNCHANGED <<trackerVars, page>>

\* stopGeolocate()
StopGeolocate ==
  /\ geolocation.steps < MaxGeoSteps
  /\ util' = IF Truthy(util.geolocateWatchID) THEN CheckGeolocate(util) ELSE util
  /\ geolocation' = [geolocation EXCEPT
                       !.watches = IF StopClears(util)
                                   THEN @ \ {util.geolocateWatchID.n} ELSE @,
                       !.stopSeen = TRUE,
                       !.steps = @ + 1]
  /\ UNCHANGED <<trackerVars, page>>

(***************************************************************************)
(* index.js: the store and the connectivity listeners.  online is what the *)
(* browser is; events is history.                                          *)
(***************************************************************************)
\* lines 34-39 and 98-102: the store, then store.offline = !navigator.onLine
\* when navigator.onLine is a boolean
PageLoaded(online, isBoolean) ==
  page = [offline |-> IF isBoolean THEN ~online ELSE FALSE,
          bodyOffline |-> IF isBoolean THEN ~online ELSE FALSE,
          listening |-> FALSE,
          online |-> online,
          startedOnline |-> online,
          onLineIsBoolean |-> isBoolean,
          events |-> <<>>]

\* lines 104-113: the online and offline listeners exist once 'load' ran
Listening(p) == p.listening

\* the window's 'load' event (lines 104-113)
Load ==
  /\ Len(page.events) < MaxNetEvents
  /\ "load" \notin {page.events[i] : i \in 1..Len(page.events)}
  /\ page' = [page EXCEPT !.listening = TRUE, !.events = Append(@, "load")]
  /\ UNCHANGED <<trackerVars, util, geolocation>>

\* the browser goes online and fires 'online' (lines 105-108)
GoOnline ==
  /\ Len(page.events) < MaxNetEvents
  /\ ~page.online
  /\ page' = [page EXCEPT
                !.online = TRUE,
                !.offline = IF Listening(page) THEN FALSE ELSE @,
                !.bodyOffline = IF Listening(page) THEN FALSE ELSE @,
                !.events = Append(@, "online")]
  /\ UNCHANGED <<trackerVars, util, geolocation>>

\* the browser goes offline and fires 'offline' (lines 109-112)
GoOffline ==
  /\ Len(page.events) < MaxNetEvents
  /\ page.online
  /\ page' = [page EXCEPT
                !.online = FALSE,
                !.offline = IF Listening(page) THEN TRUE ELSE @,
                !.bodyOffline = IF Listening(page) THEN TRUE ELSE @,
                !.events = Append(@, "offline")]
  /\ UNCHANGED <<trackerVars, util, geolocation>>

\* the tracker is constructed in a page that is online and uses no geolocation
Constructed(g, capable) ==
  /\ TrackerConstructed(g, capable)
  /\ UtilConstructed(TRUE)
  /\ PageLoaded(TRUE, TRUE)

(***************************************************************************)
(* _.throttle(func, wait) of lodash 4: debounce(func, wait, {leading:      *)
(* true, maxWait: wait, trailing: true}).                                  *)
(***************************************************************************)
ShouldInvoke(time) ==
  \/ lastCallTime = None
  \/ time - lastCallTime[1] >= Wait
  \/ time - lastCallTime[1] < 0
  \/ time - lastInvokeTime >= Wait

Min(a, b) == IF a < b THEN a ELSE b

RemainingWait(time) ==
  Min(Wait - (time - lastCallTime[1]), Wait - (time - lastInvokeTime))

\* the throttled function is called with a batch
Debounced(batch) ==
  /\ lastCallTime' = Some(now)
  /\ IF ShouldInvoke(now)
     THEN \* leadingEdge, or the maxing branch when a timer is pending: both
          \* restart the timer and invoke at once
          /\ timerId' = Some(now + Wait)
          /\ lastInvokeTime' = now
          /\ lastArgs' = None
          /\ calls' = Append(calls,
                             Report(batch, IF timerId = None THEN "leading" ELSE "maxing"))
     ELSE /\ timerId' = IF timerId = None THEN Some(now + Wait) ELSE timerId
          /\ lastArgs' = Some(batch)
          /\ UNCHANGED <<lastInvokeTime, calls>>

\* setTimeout's callback: timerExpired, then trailingEdge or a restart
TimerExpired ==
  /\ timerId # None
  /\ now >= timerId[1]
  /\ IF ShouldInvoke(now)
     THEN /\ timerId' = None
          /\ lastArgs' = None
          /\ IF lastArgs # None
             THEN /\ lastInvokeTime' = now
                  /\ calls' = Append(calls, Report(lastArgs[1], "trailing"))
             ELSE UNCHANGED <<lastInvokeTime, calls>>
     ELSE /\ timerId' = Some(now + RemainingWait(now))
          /\ UNCHANGED <<lastArgs, lastInvokeTime, calls>>
  /\ UNCHANGED <<pageVars, given, options, observer, observed, registry, heap, now,
                 lastCallTime, deliveries, registered, stopCalls, threw>>

\* time passes; a timer fires when it is due
Tick ==
  /\ now + TimeStep <= MaxTime
  /\ IF timerId = None THEN TRUE ELSE timerId[1] > now
  /\ now' = now + TimeStep
  /\ UNCHANGED <<pageVars, given, options, observer, observed, registry, heap, lastArgs,
                 lastCallTime, lastInvokeTime, timerId, calls, deliveries,
                 registered, stopCalls, threw>>

(***************************************************************************)
(* The IntersectionObserver delivers a batch of entries of watched         *)
(* targets to the callback the constructor gave it.                        *)
(***************************************************************************)
Deliver(entries) ==
  /\ observer
  /\ entries # <<>>
  /\ \A i \in 1..Len(entries) : entries[i].target \in observed
  /\ deliveries' = Append(deliveries, now)
  /\ LET batch == [entries |-> entries, at |-> now, no |-> Len(deliveries) + 1]
     IN IF UseThrottle(options)
        THEN Debounced(batch)
        ELSE /\ calls' = Append(calls, Report(batch, "direct"))
             /\ UNCHANGED <<lastArgs, lastCallTime, lastInvokeTime, timerId>>
  /\ UNCHANGED <<pageVars, given, options, observer, observed, registry, heap, now,
                 registered, stopCalls, threw>>

(***************************************************************************)
(* addElements (lines 596-620) and stop (lines 647-651).                   *)
(***************************************************************************)
\* lines 599-600: the copy is stored, the result of concat is dropped
CopyThenConcat(old, elements) == old

\* a bug that would store the elements and never subscribe them
ObserveNothing(targets, elements) == targets

\* this.observer.observe(e) for each of the elements
Observe(targets, elements) == targets \cup elements

\* line 612: this.options.elements.push(e), into whichever array that is
Push(h, ref, e) == [h EXCEPT ![ref] = Append(h[ref], e)]

\* what addElements(c), c an array of the caller, does to the tracker
AddCollectionEffect(c) ==
  LET elements == heap[c]
  IN /\ IF IsArrayLike(registry)
        THEN /\ heap' = [heap EXCEPT !.own = CopyThenConcat(heap[registry], elements)]
             /\ registry' = "own"
        ELSE /\ registry' = c
             /\ heap' = heap
     /\ registered' = registered \o elements
     \* elements.forEach(e => this.observer.observe(e))
     /\ IF observer
        THEN observed' = Observe(observed, Range(elements)) /\ threw' = threw
        ELSE observed' = observed /\ threw' = (threw \/ elements # <<>>)

\* addElements(c) with c an array of the caller
AddCollection(c) ==
  /\ AddCollectionEffect(c)
  /\ UNCHANGED <<pageVars, given, options, observer, now, lastArgs, lastCallTime,
                 lastInvokeTime, timerId, calls, deliveries, stopCalls>>

\* what addElements(e), e a single element, does to the tracker
AddElementEffect(e) ==
  /\ IF IsArrayLike(registry)
     THEN /\ heap' = Push(heap, registry, e)
          /\ registry' = registry
     ELSE /\ heap' = [heap EXCEPT !.own = <<e>>]
          /\ registry' = "own"
  /\ registered' = Append(registered, e)
  \* this.observer.observe(elements)
  /\ IF observer
     THEN observed' = Observe(observed, {e}) /\ threw' = threw
     ELSE observed' = observed /\ threw' = TRUE

\* addElements(e) with e a single element
AddElement(e) ==
  /\ AddElementEffect(e)
  /\ UNCHANGED <<pageVars, given, options, observer, now, lastArgs, lastCallTime,
                 lastInvokeTime, timerId, calls, deliveries, stopCalls>>

(***************************************************************************)
(* A batch is delivered to an unthrottled tracker and the host's onObserve *)
(* callback calls addElements before it returns.  onObserve has computed   *)
(* the arguments of the callback (lines 625-635) when the callback runs    *)
(* (line 637), and nothing follows the callback.                           *)
(***************************************************************************)
ReportDuring(entries, elements) ==
  /\ observer
  /\ ~UseThrottle(options)
  /\ entries # <<>>
  /\ \A i \in 1..Len(entries) : entries[i].target \in observed
  /\ deliveries' = Append(deliveries, now)
  /\ LET batch == [entries |-> entries, at |-> now, no |-> Len(deliveries) + 1]
     IN calls' = Append(calls, [Report(batch, "direct") EXCEPT !.during = elements])
  /\ UNCHANGED <<pageVars, given, options, observer, now, lastArgs, lastCallTime,
                 lastInvokeTime, timerId, stopCalls>>

DeliverAndAddCollection(entries, c) ==
  ReportDuring(entries, heap[c]) /\ AddCollectionEffect(c)

DeliverAndAddElement(entries, e) ==
  ReportDuring(entries, <<e>>) /\ AddElementEffect(e)

\* stop(): disconnect() empties the observer's targets; nothing else changes
Stop ==
  /\ observed' = IF observer THEN {} ELSE observed
  /\ stopCalls' = IF stopCalls = None THEN Some(Len(calls)) ELSE stopCalls
  /\ UNCHANGED <<pageVars, given, options, observer, registry, heap, now, lastArgs,
                 lastCallTime, lastInvokeTime, timerId, calls, deliveries,
                 registered, threw>>

(***************************************************************************)
(* Specifications.                                                         *)
(***************************************************************************)
NoElements == None

Config(throttle, threshold, force, elements) ==
  [throttle |-> throttle, attribute |-> "", visibleThreshold |-> threshold,
   forceItem |-> force, elements |-> elements]

\* Ranking: an unthrottled tracker of all elements receives one batch.
RankConfigs ==
  {Config(JsBool(FALSE), th, f, Some("A")) :
     th \in {JsUndefined, JsNum(0), JsNum(90)},
     f \in {JsUndefined, JsBool(TRUE)}}

InitRank == \E g \in RankConfigs : Constructed(g, TRUE)

NextRank ==
  /\ deliveries = <<>>
  /\ \E entries \in Batches(Samples(observed), MaxBatch) : Deliver(entries)

SpecRank == InitRank /\ [][NextRank]_vars

\* Throttling: the clock runs, batches of one sample arrive (the intersection
\* source notifies at most once per instant of the clock), stop() may come.
ThrottleConfigs ==
  {Config(th, JsUndefined, JsUndefined, Some("A")) :
     th \in {JsUndefined, JsBool(FALSE), JsNum(0), JsNum(150)}}

InitThrottle == \E g \in ThrottleConfigs : Constructed(g, TRUE)

DeliverOne ==
  /\ Len(deliveries) < MaxThrottleBatches
  /\ IF deliveries = <<>> THEN TRUE ELSE deliveries[Len(deliveries)] < now
  /\ Deliver(<<Entry(1, 90)>>)

NextThrottle == DeliverOne \/ Tick \/ TimerExpired \/ Stop

SpecThrottle == InitThrottle /\ [][NextThrottle]_vars

\* Lifecycle: registration, deliveries and stop() in any order, with and
\* without the intersection capability, unthrottled.
LifeConfigs ==
  {Config(JsBool(FALSE), JsUndefined, JsUndefined, el) :
     el \in {NoElements, Some("A")}}

InitLife == \E g \in LifeConfigs, capable \in BOOLEAN : Constructed(g, capable)

DeliverWatched ==
  /\ Len(deliveries) < MaxLifeBatches
  /\ \E e \in observed : Deliver(<<Entry(e, 90)>>)

Register ==
  /\ Len(registered) < MaxRegistered
  /\ \/ \E c \in CallerArrays : AddCollection(c)
     \/ \E e \in Elements : AddElement(e)

NextLife == Register \/ DeliverWatched \/ Stop

SpecLife == InitLife /\ [][NextLife]_vars

\* Reentrancy: the callback of the first batch (one or two samples at 80 and
\* 90 percent) registers while it runs; later batches and stop() follow.
ReentryConfigs ==
  {Config(JsBool(FALSE), JsUndefined, JsUndefined, Some(a)) : a \in CallerArrays}

InitReentry == \E g \in ReentryConfigs : Constructed(g, TRUE)

ReentryBatches ==
  Batches({Entry(e, r) : e \in observed, r \in {80, 90}}, MaxReentryBatch)

DeliverRegistering ==
  /\ deliveries = <<>>
  /\ \E entries \in ReentryBatches :
       \/ \E c \in CallerArrays : DeliverAndAddCollection(entries, c)
       \/ \E e \in Elements : DeliverAndAddElement(entries, e)

NextReentry == DeliverRegistering \/ DeliverWatched \/ Stop

SpecReentry == InitReentry /\ [][NextReentry]_vars

\* Geolocation: any calls of geolocate and stopGeolocate and any callbacks;
\* no tracker is in use.
Idle == TrackerConstructed(Config(JsUndefined, JsUndefined, JsUndefined, NoElements), FALSE)

InitGeo ==
  /\ Idle
  /\ \E available \in BOOLEAN : UtilConstructed(available)
  /\ PageLoaded(TRUE, TRUE)

StartGeolocate == \E watch \in BOOLEAN : Geolocate(watch)

OneShotCallback == \E ok \in BOOLEAN : OneShotAnswer(ok)

NextGeo ==
  StartGeolocate \/ WatchSuccess \/ WatchError \/ OneShotCallback \/ StopGeolocate

SpecGeo == InitGeo /\ [][NextGeo]_vars

\* Connectivity: 'load' once, and the browser going online and offline.
InitOnline ==
  /\ Idle
  /\ UtilConstructed(TRUE)
  /\ \E online \in BOOLEAN, isBoolean \in BOOLEAN : PageLoaded(online, isBoolean)

NextOnline == Load \/ GoOnline \/ GoOffline

SpecOnline == InitOnline /\ [][NextOnline]_vars

\* The whole tracker: any configuration, any call and any event in any order.
\* The tracker's specifications above are this one with the host and the
\* intersection source restricted.
AllConfigs ==
  {Config(th, vt, f, el) :
     th \in {JsUndefined, JsBool(FALSE), JsNum(0), JsNum(150)},
     vt \in {JsUndefined, JsNum(0), JsNum(90)},
     f \in {JsUndefined, JsBool(FALSE), JsBool(TRUE)},
     el \in {NoElements, Some("A"), Some("B")}}

Init == \E g \in AllConfigs, capable \in BOOLEAN : Constructed(g, capable)

Next ==
  \/ \E entries \in Batches(Samples(observed), MaxBatch) : Deliver(entries)
  \/ \E c \in CallerArrays : AddCollection(c)
  \/ \E e \in Elements : AddElement(e)
  \/ \E entries \in Batches(Samples(observed), MaxBatch) :
       \/ \E c \in CallerArrays : DeliverAndAddCollection(entries, c)
       \/ \E e \in Elements : DeliverAndAddElement(entries, e)
  \/ Stop
  \/ Tick
  \/ TimerExpired

Spec == Init /\ [][Next]_vars

(***************************************************************************)
(* Properties of the ranking and of the activity gate (SpecRank).          *)
(***************************************************************************)
Plain(sample) == [sample EXCEPT !.inView = FALSE]

Count(seq, x) == Cardinality({i \in 1..Len(seq) : Plain(seq[i]) = x})

\* the samples of ranked are those of entries, each as often
SameSamples(ranked, entries) ==
  /\ Len(ranked) = Len(entries)
  /\ \A i \in 1..Len(entries) :
       Count(ranked, Plain(entries[i])) = Count(entries, Plain(entries[i]))

\* intersectionRatio descending, ties by boundingClientRect.y ascending
Ranked(ranked) ==
  \A i, j \in 1..Len(ranked) :
    i < j =>
      \/ ranked[i].intersectionRatio > ranked[j].intersectionRatio
      \/ /\ ranked[i].intersectionRatio = ranked[j].intersectionRatio
         /\ ranked[i].y <= ranked[j].y

\* s has the greatest ratio of the batch and, among those, the least y
Winner(s, entries) ==
  \A i \in 1..Len(entries) :
    \/ s.intersectionRatio > entries[i].intersectionRatio
    \/ /\ s.intersectionRatio = entries[i].intersectionRatio
       /\ s.y <= entries[i].y

Targets(seq) == [i \in 1..Len(seq) |-> seq[i].target]

ExampleBatch == <<Entry(1, 90), Entry(2, 95), Entry(3, 30)>>

\* C1: the third argument of every onObserve report is the whole batch,
\* ordered by intersectionRatio descending and then boundingClientRect.y
\* ascending; a reported sample is the first of that order, the one with the
\* greatest ratio and among those the least y; ratios 90, 95, 30 at tops 10,
\* 20, 5 are ranked 2nd, 1st, 3rd element.
C1_RankedWholeBatch ==
  \A k \in 1..Len(calls) :
    LET c == calls[k]
    IN /\ SameSamples(c.ranked, c.entries)
       /\ Ranked(c.ranked)
       /\ c.sample # None =>
            /\ c.sample[1] = c.ranked[1]
            /\ Winner(c.sample[1], c.entries)
       /\ c.entries = ExampleBatch => Targets(c.ranked) = <<2, 1, 3>>

C1_Witness ==
  /\ Len(calls) = 1
  /\ calls[1].entries = ExampleBatch
  /\ Targets(calls[1].ranked) = <<2, 1, 3>>
  /\ calls[1].sample # None
  /\ calls[1].sample[1].target = 2

ForceActive == options.forceItem.t = "boolean" /\ options.forceItem.b

\* C2: every report carries the first-ranked sample and the value of its
\* configured attribute exactly when that sample's ratio is at least the
\* tracker's visibleThreshold or forceItem is set, and carries neither
\* otherwise.
C2_GateDecidesReport ==
  \A k \in 1..Len(calls) :
    LET c == calls[k]
        top == c.ranked[1]
    IN IF top.intersectionRatio >= options.visibleThreshold \/ ForceActive
       THEN /\ c.identifier = Some(GetAttribute(top.target, options.attribute))
            /\ c.sample = Some(top)
       ELSE c.identifier = None /\ c.sample = None

\* threshold 85, not forced, a first-ranked sample at exactly 85 is reported
C2_Witness ==
  /\ options.visibleThreshold = 85
  /\ ~ForceActive
  /\ Len(calls) = 1
  /\ calls[1].ranked[1].intersectionRatio = 85
  /\ calls[1].identifier = Some(GetAttribute(calls[1].ranked[1].target, "data-id"))
  /\ Len(calls[1].ranked) = 2

\* C3: in every report at most one sample is marked inView, and only the
\* first-ranked one; a batch causes one report, not one per sample.
C3_OnlyFirstMarked ==
  /\ Len(calls) <= Len(deliveries)
  /\ \A k \in 1..Len(calls) :
       \A i \in 2..Len(calls[k].ranked) : ~calls[k].ranked[i].inView

\* the same element twice, tying on ratio and position, both over the
\* threshold: the first is marked, the second is not
C3_Witness ==
  /\ Len(calls) = 1
  /\ Len(calls[1].ranked) = 3
  /\ Plain(calls[1].ranked[1]) = Plain(calls[1].ranked[2])
  /\ calls[1].ranked[1].intersectionRatio >= options.visibleThreshold
  /\ calls[1].ranked[1].inView
  /\ ~calls[1].ranked[2].inView

(***************************************************************************)
(* Properties of the throttle and of stop() (SpecThrottle).                *)
(***************************************************************************)
Throttled == Truthy(options.throttle)

\* C4: once stop() has returned, a throttled tracker makes no further
\* onObserve report, the pending trailing flush included.
C4_StopCancelsFlush ==
  (Throttled /\ stopCalls # None) => Len(calls) = stopCalls[1]

Schedule == <<0, 10, 20, 30, 140>>

Flushed == deliveries = Schedule /\ lastArgs = None

\* C5 as stated: throttle 150 and batches at 0, 10, 20, 30, 140 give exactly
\* one report, of the batch of 140, at or after 150.
C5_OneCall ==
  (options.throttle = JsNum(150) /\ Flushed) =>
    /\ Len(calls) = 1
    /\ calls[1].batchAt = 140
    /\ calls[1].time >= 150

\* C5 as amended: throttle 150 and batches at 0, 10, 20, 30, 140 give exactly
\* two reports: the batch of 0 at 0 (the leading edge) and the batch of 140 at
\* or after 150; and no report of the batch of 140 is made before 150.
C5_LeadingThenTrailing ==
  /\ (options.throttle = JsNum(150) /\ Flushed) =>
       /\ Len(calls) = 2
       /\ calls[1].batchAt = 0 /\ calls[1].time = 0
       /\ calls[2].batchAt = 140 /\ calls[2].time >= 150
  /\ (options.throttle = JsNum(150) /\ deliveries = Schedule /\ lastArgs # None) =>
       /\ Len(calls) = 1
       /\ now <= 150

C5_Witness ==
  /\ options.throttle = JsNum(150)
  /\ Flushed
  /\ Len(calls) = 2
  /\ calls[2].kind = "trailing"
  /\ calls[2].time = 150

\* C6: under a throttle of W any two reports are at least W apart, and every
\* deferred flush reports the most recent batch delivered before it.
C6_AtMostOncePerWait ==
  Throttled =>
    /\ \A k \in 2..Len(calls) : calls[k].time - calls[k - 1].time >= Wait
    /\ \A k \in 1..Len(calls) :
         calls[k].kind = "trailing" => calls[k].batchNo = calls[k].delivered

\* C7: a tracker configured with throttle false or 0 reports every batch at
\* the time it is delivered: n batches, n reports.
C7_FalseOrZeroDisables ==
  given.throttle \in {JsBool(FALSE), JsNum(0)} =>
    /\ Len(calls) = Len(deliveries)
    /\ \A k \in 1..Len(calls) :
         calls[k].time = deliveries[k] /\ calls[k].batchNo = k

(***************************************************************************)
(* Properties of registration and of the lifecycle (SpecLife).             *)
(***************************************************************************)
\* C8: without the intersection capability no call throws and no report is
\* made.
C8_InertWithoutCapability == ~observer => (~threw /\ calls = <<>>)

\* C9: once stop() has returned, no later stop() or addElements() throws or
\* leads to a report.
C9_InertAfterStop ==
  (observer /\ stopCalls # None) => (Len(calls) = stopCalls[1] /\ ~threw)

RegistryContents == IF IsArrayLike(registry) THEN heap[registry] ELSE <<>>

\* C10: the registry is the concatenation of all registrations, in order and
\* with repetitions, and every registered element is subscribed.
C10_RegistryIsConcatenation ==
  observer =>
    /\ RegistryContents = registered
    /\ stopCalls = None => Range(registered) \subseteq observed

(***************************************************************************)
(* Properties of a registration made from inside the callback              *)
(* (SpecReentry).                                                          *)
(***************************************************************************)
\* C11: when the host's callback calls addElements while it runs, the report
\* it was given is that of the batch as delivered (the whole batch, ranked,
\* gated on its first sample), no call throws, and the elements it registered
\* are subscribed for later batches.
C11_ReentrantRegistration ==
  \A k \in 1..Len(calls) :
    LET c == calls[k]
        top == c.ranked[1]
    IN c.during # <<>> =>
         /\ SameSamples(c.ranked, c.entries)
         /\ Ranked(c.ranked)
         /\ \A i \in 2..Len(c.ranked) : ~c.ranked[i].inView
         /\ IF top.intersectionRatio >= options.visibleThreshold
            THEN c.sample = Some(top) /\ top.inView
            ELSE c.sample = None /\ c.identifier = None
         /\ ~threw
         /\ stopCalls = None => Range(c.during) \subseteq observed

\* the callback of the first batch registered element 3, unknown until then,
\* and the second batch reports a sample of element 3
C11_Witness ==
  /\ Len(calls) = 2
  /\ given.elements = Some("B")
  /\ calls[1].during = <<3>>
  /\ \A i \in 1..Len(calls[1].entries) : calls[1].entries[i].target # 3
  /\ Len(calls[1].ranked) = 2
  /\ calls[2].sample # None
  /\ calls[2].sample[1].target = 3

(***************************************************************************)
(* The threshold the host configured (SpecRank).                           *)
(***************************************************************************)
\* C12: without forceItem, a tracker constructed with a number v as
\* visibleThreshold, 0 included, reports the first-ranked sample exactly when
\* its ratio is at least v.
C12_ConfiguredThresholdApplies ==
  (given.visibleThreshold.t = "number" /\ ~ForceActive) =>
    \A k \in 1..Len(calls) :
      (calls[k].sample # None) <=>
        (calls[k].ranked[1].intersectionRatio >= given.visibleThreshold.n)

(***************************************************************************)
(* The arrays of the caller (SpecLife).                                    *)
(***************************************************************************)
\* C13: whatever is registered with a working tracker, every array the caller
\* passed to addElements or as options.elements keeps the contents it had.
C13_CallerArraysUntouched ==
  observer => \A a \in CallerArrays : heap[a] = InitialHeap[a]

(***************************************************************************)
(* Geolocation (SpecGeo) and connectivity (SpecOnline).                    *)
(***************************************************************************)
\* C14: when stopGeolocate() was called after geolocate(done, true) started
\* a watch, with nothing but callbacks in between, that watch is cleared.
C14_StopClearsWatch ==
  (geolocation.stopSeen /\ geolocation.lastWatch # None) =>
    geolocation.lastWatch[1] \notin geolocation.watches

LastChange ==
  LET changes == {i \in 1..Len(page.events) : page.events[i] # "load"}
  IN IF changes = {} THEN "none"
     ELSE page.events[CHOOSE i \in changes : \A j \in changes : j <= i]

BrowserOffline ==
  \/ LastChange = "offline"
  \/ LastChange = "none" /\ ~page.startedOnline

\* C15: when navigator.onLine is a boolean, store.offline is true exactly
\* when the browser is offline: its last change was 'offline', or it never
\* changed and started offline.
C15_StoreTracksConnectivity ==
  page.onLineIsBoolean => (page.offline <=> BrowserOffline)

====
